---- MODULE Spec2Model ----
(***************************************************************************)
(* marcel: the job launcher (src/execute.c launch_job), its descriptor     *)
(* clean-up, process-group assignment, and the signal handler of           *)
(* src/signals.c, as a state machine.                                      *)
(*                                                                         *)
(* C arrays are modelled as functions over 0..n-1 so that indices read as  *)
(* in the source (fds[0], io_fd[2], procs[0]).                             *)
(*                                                                         *)
(* Spec    : the main flow of one launch_job call; open, pipe and fork may *)
(*           fail.  The shell starts with descriptors 0, 1, 2 open.        *)
(* SpecSig : the same call interleaved with the steps of its children and  *)
(*           with SIGCHLD, SIGINT and SIGQUIT deliveries to the shell; no  *)
(*           system call fails.                                            *)
(* SpecCd  : the cd builtin (m_cd) invoked over and over.                  *)
(* SpecFree: one call of free_cmd or free_cmd_wrapper (src/ds/cmd.c) on a  *)
(*           chain of cmds.                                                *)
(***************************************************************************)
EXTENDS Integers, Sequences, FiniteSets, TLC

(***************************************************************************)
(* Bounds of the model.                                                    *)
(***************************************************************************)
\* largest number of stages of a job
MaxProcs == 2
\* largest descriptor number of the shell's descriptor table
MaxFd == 7
\* number of system-call failures (open, pipe, fork) the environment injects
MaxFaults == 1
\* number of times one child may be stopped
MaxStops == 1
\* the highest value read from an uninitialised descriptor variable
MaxGarbage == 3
\* largest number of cd invocations of one run of the shell
MaxCd == 4
\* largest number of cmds of a chain handed to free_cmd
MaxChain == 2
\* largest number of strings of an argv, and of an env
MaxStrs == 3
MaxEnv == 1

(***************************************************************************)
(* Program constants.  The numeric values of the status macros live in     *)
(* macros.h / marcel.h; only their being distinct and non-zero matters.    *)
(***************************************************************************)
M_FAILED_EXEC == 3
M_FAILED_IO == 4
SIGINT_EXIT_CODE == 130
\* process-group id of the shell itself
ShellPgid == 10
\* pid handed out by the first successful fork
FirstPid == ShellPgid + 1

Pids == FirstPid .. (FirstPid + MaxProcs - 1)
StdFds == 0 .. 2
Fds == 0 .. MaxFd
\* values an uninitialised int fd[2] may hold after a failed pipe(): no
\* descriptor at all, the shell's own descriptor 0, or a higher descriptor
GarbageFds == {-1, 0, MaxGarbage}

\* builtin_names / builtin_funcs, execute.c
builtin_names == <<"cd", "exit", "help">>
\* command names a stage may carry: the builtins and one external program
ArgvNames == {"cd", "exit", "help", "ls"}

(***************************************************************************)
(* What a descriptor of the shell refers to.                               *)
(***************************************************************************)
Closed == [kind |-> "closed", id |-> 0]
Tty == [kind |-> "tty", id |-> 0]
File(k) == [kind |-> "file", id |-> k]
PipeR(n) == [kind |-> "pipe_r", id |-> n]
PipeW(n) == [kind |-> "pipe_w", id |-> n]
NoObj == [kind |-> "none", id |-> 0]
\* a descriptor value that names no open descriptor (garbage, -1, closed)
BadObj == [kind |-> "bad", id |-> 0]

VARIABLES
    \* ---- the job handed to launch_job (struct job) and shell globals
    interactive,    \* jobs.h: interactive
    j_bkg,          \* j->bkg
    j_io,           \* j->io[i].path != NULL, i in 0..2
    j_pgid,         \* j->pgid (the shell's copy)
    procs,          \* j->procs: [0..n-1 -> proc]
    \* ---- launch_job's locals and position
    pc,             \* position of the main flow
    io_fd,          \* int io_fd[3]
    i_io,           \* loop index of the redirection loop
    p_p,            \* index of the stage the launch loop is at
    fork_pid,       \* pid_t pid of the current stage's fork
    ret,            \* value returned by launch_job
    calls,          \* job-registry calls made by launch_job, in order
    \* ---- the kernel, as the shell sees it
    fdtab,          \* the shell's descriptor table
    npipes,         \* pipes created so far
    pipe_failed,    \* some pipe() call of this launch returned -1
    installed,      \* per stage: what its fds referred to when it was launched
    child,          \* per pid: the forked child process
    term_pgrp,      \* foreground process group of the terminal
    faults,         \* system-call failures the environment may still inject
    \* ---- signal handling (signals.c)
    hpc,            \* position of handle_signals(SIGCHLD)
    h_p,            \* pid_t p of the handler
    first_iter,     \* _Bool first_iter of the handler
    sigchld_pending,\* SIGCHLD is pending for the shell
    reported,       \* per pid: number of del_bkg_proc + "completed" reports
    active_child,   \* children.h: the active (foreground) child
    exit_code,      \* marcel.h: exit_code
    \* ---- the builtins (execute.c, lines 215-248)
    cd,             \* cwd of the shell, static char oldpwd[PATH_MAX], call log
    wrote,          \* per stage: what the builtin's write(p->fds[1]) went to
    \* ---- what the shell asked of the kernel
    tc_calls,       \* the tcsetpgrp calls made through Set_proc_group
    closed,         \* the open descriptors the shell has closed, by object
    bad_close,      \* close() was called on a value naming no open descriptor
    \* ---- free_cmd / free_cmd_wrapper (ds/cmd.c)
    fc              \* the heap, and the position of the call being run

vars == <<interactive, j_bkg, j_io, j_pgid, procs, pc, io_fd, i_io, p_p,
          fork_pid, ret, calls, fdtab, npipes, pipe_failed, installed, child,
          term_pgrp, faults, hpc, h_p, first_iter, sigchld_pending, reported,
          active_child, exit_code, cd, wrote, tc_calls, closed, bad_close, fc>>

jobVars == <<interactive, j_bkg, j_io>>
\* what the shell's descriptor table, and the log of its close() calls, hold
fdVars == <<fdtab, closed, bad_close>>
\* the state of the builtins
builtinVars == <<cd, wrote>>
sigVars == <<hpc, h_p, first_iter, sigchld_pending, reported,
             active_child, exit_code>>

nprocs == Cardinality(DOMAIN procs)
proc_end == nprocs

(***************************************************************************)
(* struct proc as new_cmd leaves it: fds = {0,1,2}, everything else zero.  *)
(***************************************************************************)
new_proc(name) ==
    [argv0 |-> name, fds |-> [k \in StdFds |-> k], pid |-> 0,
     completed |-> FALSE, exit_code |-> 0]

NoChild == [st |-> "none", pgrp |-> 0, j_pgid |-> 0, stops |-> 0, wstop |-> FALSE]

(***************************************************************************)
(* The shell's descriptor table: open(2), pipe(2), close(2).               *)
(***************************************************************************)
FreeFds(tab) == {f \in Fds : tab[f] = Closed}
LowestFree(S) == CHOOSE f \in S : \A g \in S : f <= g

\* what descriptor value fd refers to in tab
ObjOf(tab, fd) == IF fd \in Fds /\ tab[fd] # Closed THEN tab[fd] ELSE BadObj

\* the descriptor table together with the log of the close() calls
Kernel == [tab |-> fdtab, closed |-> closed, bad |-> bad_close]

SetKernel(k) ==
    /\ fdtab' = k.tab
    /\ closed' = k.closed
    /\ bad_close' = k.bad

\* close(fd): closes an open descriptor; EBADF on a value that names no open
\* descriptor (-1, garbage, a descriptor closed before)
close(k, fd) ==
    IF ObjOf(k.tab, fd) # BadObj
    THEN [k EXCEPT !.tab[fd] = Closed,
                   !.closed = @ \cup {[fd |-> fd, obj |-> k.tab[fd]]}]
    ELSE [k EXCEPT !.bad = TRUE]

\* fd_cleanup(fd_arr, n): close fd_arr[i] for i < n unless it equals its index
RECURSIVE fd_cleanup_loop(_, _, _, _)
fd_cleanup_loop(k, fd_arr, i, n) ==
    IF i >= n THEN k
    ELSE fd_cleanup_loop(IF fd_arr[i] # i THEN close(k, fd_arr[i]) ELSE k,
                         fd_arr, i + 1, n)

\* mutant: the loop stops one element early (i < n - 1)
fd_cleanup_short(k, fd_arr, n) == fd_cleanup_loop(k, fd_arr, 0, n - 1)

fd_cleanup(k, fd_arr, n) == fd_cleanup_loop(k, fd_arr, 0, n)

(***************************************************************************)
(* Builtin lookup: lookup_table holds one CMD entry per builtin name.      *)
(***************************************************************************)
lookup_table ==
    [nm \in {builtin_names[k] : k \in DOMAIN builtin_names} |->
        [type |-> "CMD", cmd |-> nm]]

filter_command(b) == b.type = "CMD"

\* find_node(key, filter, table): the value under key if the filter accepts it
find_node(key, table) ==
    IF key \in DOMAIN table /\ filter_command(table[key]) THEN table[key]
    ELSE [type |-> "NULL", cmd |-> "NULL"]

IsBuiltin(name) == find_node(name, lookup_table).type # "NULL"

(***************************************************************************)
(* The cd builtin, m_cd, lines 215-231, over the working directory of the  *)
(* shell and the static buffer oldpwd.                                     *)
(***************************************************************************)
\* the directories that exist: chdir fails on every other path
Dirs == {"/home", "/a"}
\* getenv("HOME")
HOME == "/home"
\* argv[1] of a cd stage: absent, the token "-", a directory, a missing path
CdArgs == {"NULL", "-", "/a", "/nonexistent"}

\* the shell starts in some directory with oldpwd zero-filled (static)
InitCd == [cwd |-> HOME, oldpwd |-> "", log |-> <<>>]

\* m_cd(p) with p->argv[1] = argv1, run on cwd and oldpwd of st: the value
\* returned, and cwd and oldpwd afterwards
m_cd(argv1, st) ==
    LET dir0 == IF argv1 = "NULL" THEN HOME ELSE argv1
        old == dir0 = "-"
    IN IF old /\ st.oldpwd = ""
       THEN [ret |-> 1, cwd |-> st.cwd, oldpwd |-> st.oldpwd]
       ELSE LET dir == IF old THEN st.oldpwd ELSE dir0
                \* getcwd(oldpwd, PATH_MAX), before chdir is tried
                saved == st.cwd
            IN IF dir \notin Dirs
               THEN [ret |-> 1, cwd |-> st.cwd, oldpwd |-> saved]
               ELSE [ret |-> 0, cwd |-> dir, oldpwd |-> saved]

\* the state of cd after one more call, with the call appended to the log
cd_after(argv1, st) ==
    LET r == m_cd(argv1, st)
    IN [cwd |-> r.cwd, oldpwd |-> r.oldpwd,
        log |-> Append(st.log, [arg |-> argv1, ret |-> r.ret, cwd |-> r.cwd,
                                oldpwd |-> r.oldpwd])]

(***************************************************************************)
(* free_cmd and free_cmd_wrapper, ds/cmd.c lines 23-56, over a heap of     *)
(* blocks.  A cmd owns its argv and env arrays (dyn_array, ds/dyn_array.h) *)
(* and their strings; data[j] is a string for j below the number of        *)
(* strings and NULL from there up to cap.                                  *)
(***************************************************************************)
\* cap of every array: room for the strings and at least one NULL
Cap == MaxStrs + MaxEnv + 1

\* a cmd: the number of strings of its argv and of its env
Cmds == [argv : 0 .. MaxStrs, env : 0 .. MaxEnv]
\* a chain of cmds linked by next; the empty chain is the pointer NULL
Chains == UNION {[1 .. n -> Cmds] : n \in 0 .. MaxChain}

\* a heap block: a string, an array, a cmd, a redirection path, the wrapper
Block(kind, c, a, j) == [kind |-> kind, c |-> c, a |-> a, j |-> j]

\* one call: its entry point and arguments, its position, the blocks it
\* has released in order, and the reads it made outside what it may read
FreeCall(entry, w, io, chain) ==
    [pc |-> "start", entry |-> entry, w |-> w, io |-> io, chain |-> chain,
     c |-> 1, i |-> 0, j |-> 0, frees |-> <<>>, bad_read |-> {}]

FreeInputs ==
    {FreeCall("free_cmd", FALSE, FALSE, ch) : ch \in Chains}
    \cup {FreeCall("free_cmd_wrapper", FALSE, FALSE, <<>>)}
    \cup {FreeCall("free_cmd_wrapper", TRUE, io, ch) :
              io \in BOOLEAN, ch \in Chains}

\* no free_cmd call is being run
NoFree == [FreeCall("none", FALSE, FALSE, <<>>) EXCEPT !.pc = "none"]

(***************************************************************************)
(* Initial state: a job fresh from the parser, a shell with descriptors    *)
(* 0, 1, 2 on the terminal, no children.                                   *)
(***************************************************************************)
Jobs ==
    UNION {{[k \in 0 .. n - 1 |-> new_proc(a[k])] : a \in [0 .. n - 1 -> ArgvNames]}
           : n \in 1 .. MaxProcs}

InitState ==
    /\ interactive \in BOOLEAN
    /\ j_bkg \in BOOLEAN
    /\ j_io \in [StdFds -> BOOLEAN]
    /\ j_pgid = 0
    /\ procs \in Jobs
    /\ pc = "open_io"
    /\ io_fd = [k \in StdFds |-> k]
    /\ i_io = 0
    /\ p_p = 0
    /\ fork_pid = 0
    /\ ret = 0
    /\ calls = <<>>
    /\ fdtab = [f \in Fds |-> IF f \in StdFds THEN Tty ELSE Closed]
    /\ npipes = 0
    /\ pipe_failed = FALSE
    /\ installed = [k \in DOMAIN procs |-> [s \in StdFds |-> NoObj]]
    /\ child = [p \in Pids |-> NoChild]
    /\ term_pgrp = ShellPgid
    /\ hpc = "idle"
    /\ h_p = 0
    /\ first_iter = TRUE
    /\ sigchld_pending = FALSE
    /\ reported = [p \in Pids |-> 0]
    /\ active_child = 0
    /\ exit_code = 0
    /\ cd = InitCd
    /\ wrote = [k \in DOMAIN procs |-> NoObj]
    /\ tc_calls = {}
    /\ closed = {}
    /\ bad_close = FALSE

\* the environment may fail up to MaxFaults system calls of the launch
Init == InitState /\ faults = MaxFaults /\ fc = NoFree

\* no system call fails for lack of resources
InitSig == InitState /\ faults = 0 /\ fc = NoFree

(***************************************************************************)
(* launch_job, lines 130-138: open the redirections.                       *)
(***************************************************************************)
\* position of the loop body for stage k: the last stage gets no pipe
BodyPc(k) == IF k = proc_end - 1 THEN "launch" ELSE "pipe"

\* Stopif(io_fd[i] == -1, fd_cleanup(io_fd, i); return M_FAILED_IO, ...)
OpenFailed ==
    /\ io_fd' = [io_fd EXCEPT ![i_io] = -1]
    /\ SetKernel(fd_cleanup(Kernel, io_fd', i_io))
    /\ ret' = M_FAILED_IO
    /\ pc' = "returned"
    /\ UNCHANGED i_io

OpenIO ==
    /\ pc = "open_io"
    /\ \/ /\ ~j_io[i_io]
          /\ UNCHANGED <<io_fd, fdVars, ret, faults>>
          /\ i_io' = i_io + 1
          /\ pc' = IF i_io = 2 THEN "bind" ELSE "open_io"
       \/ /\ j_io[i_io]
          /\ FreeFds(fdtab) # {}
          /\ LET fd == LowestFree(FreeFds(fdtab)) IN
               /\ io_fd' = [io_fd EXCEPT ![i_io] = fd]
               /\ fdtab' = [fdtab EXCEPT ![fd] = File(i_io)]
          /\ UNCHANGED <<ret, faults, closed, bad_close>>
          /\ i_io' = i_io + 1
          /\ pc' = IF i_io = 2 THEN "bind" ELSE "open_io"
       \/ /\ j_io[i_io]
          /\ \/ /\ faults > 0
                /\ faults' = faults - 1
             \/ /\ FreeFds(fdtab) = {}
                /\ UNCHANGED faults
          /\ OpenFailed
    /\ UNCHANGED <<jobVars, j_pgid, procs, p_p, fork_pid, calls, npipes,
                   pipe_failed, installed, child, term_pgrp, sigVars,
                   builtinVars, tc_calls, fc>>

(***************************************************************************)
(* launch_job, lines 139-145: bind the resolved redirections.              *)
(***************************************************************************)
BindIO ==
    /\ pc = "bind"
    /\ LET first == [procs EXCEPT ![0].fds[0] = io_fd[0]]
           out == [first EXCEPT ![proc_end - 1].fds[1] = io_fd[1]]
       IN procs' = [out EXCEPT ![proc_end - 1].fds[2] = io_fd[2]]
    /\ pc' = BodyPc(0)
    /\ UNCHANGED <<jobVars, j_pgid, io_fd, i_io, p_p, fork_pid, ret, calls,
                   fdVars, npipes, pipe_failed, installed, child, term_pgrp,
                   faults, sigVars, builtinVars, tc_calls, fc>>

(***************************************************************************)
(* launch_job, lines 150-156: pipe(fd) between stage p_p and p_p + 1.  The *)
(* return value of pipe() is not looked at: when it fails, fd[0] and fd[1] *)
(* are uninitialised and the stages get whatever the two ints hold.        *)
(***************************************************************************)
SetPipeFds(w, r) ==
    procs' = [procs EXCEPT ![p_p].fds[1] = w, ![p_p + 1].fds[0] = r]

MakePipe ==
    /\ pc = "pipe"
    /\ \/ /\ Cardinality(FreeFds(fdtab)) >= 2
          /\ LET r == LowestFree(FreeFds(fdtab))
                 w == LowestFree(FreeFds(fdtab) \ {r})
             IN /\ fdtab' = [fdtab EXCEPT ![r] = PipeR(npipes + 1),
                                          ![w] = PipeW(npipes + 1)]
                /\ SetPipeFds(w, r)
          /\ npipes' = npipes + 1
          /\ UNCHANGED <<pipe_failed, faults>>
       \/ /\ \/ /\ faults > 0
                /\ faults' = faults - 1
             \/ /\ Cardinality(FreeFds(fdtab)) < 2
                /\ UNCHANGED faults
          /\ \E g0, g1 \in GarbageFds : SetPipeFds(g1, g0)
          /\ pipe_failed' = TRUE
          /\ UNCHANGED <<fdtab, npipes>>
    /\ pc' = "launch"
    /\ UNCHANGED <<jobVars, j_pgid, io_fd, i_io, p_p, fork_pid, ret, calls,
                   installed, child, term_pgrp, sigVars, closed, bad_close,
                   builtinVars, tc_calls, fc>>

(***************************************************************************)
(* Process groups and the terminal: setpgid(2), tcsetpgrp(3).              *)
(***************************************************************************)
Alive(c) == c.st \notin {"none", "reaped"}

\* a process group exists while a process that is not yet reaped is in it
GroupExists(ch, g) ==
    \/ g = ShellPgid
    \/ \E q \in Pids : Alive(ch[q]) /\ ch[q].pgrp = g

\* setpgid(pid, pgid) called by self (0: the shell, else the child of that
\* pid).  pid 0 names the caller, pgid 0 names the target's own pid.
\* ESRCH: no such child.  EACCES: the parent's call after the child's exec.
\* EPERM: the group to join does not exist.
setpgid(ch, self, pid, pgid) ==
    LET target == IF pid = 0 THEN self ELSE pid
        g == IF pgid = 0 THEN target ELSE pgid
    IN IF target \notin Pids \/ ~Alive(ch[target]) THEN ch
       ELSE IF self = 0 /\ ch[target].st # "forked" THEN ch
       ELSE IF g = target \/ GroupExists(ch, g)
            THEN [ch EXCEPT ![target].pgrp = g]
       ELSE ch

\* tcsetpgrp(SHELL_TERM, pgid): fails on pgid 0 and on a group that is gone
tcsetpgrp(tp, ch, pgid) ==
    IF pgid > 0 /\ GroupExists(ch, pgid) THEN pgid ELSE tp

\* The macro Set_proc_group(JOB, PID, PGID), lines 111-119, run by self.
\* PGID is an lvalue: the caller's copy of j->pgid is assigned.
\* tc: the process-group ids handed to tcsetpgrp (none or one).
Set_proc_group(ch, tp, self, PID, PGID) ==
    IF interactive
    THEN LET pgid == IF PGID = 0 THEN PID ELSE PGID
             ch2 == setpgid(ch, self, PID, pgid)
         IN [pgid |-> pgid, child |-> ch2,
             term |-> IF ~j_bkg THEN tcsetpgrp(tp, ch2, pgid) ELSE tp,
             tc |-> IF ~j_bkg THEN {pgid} ELSE {}]
    ELSE [pgid |-> PGID, child |-> ch, term |-> tp, tc |-> {}]

\* the tcsetpgrp calls of one Set_proc_group run by self for the child pid
tc_log(self, pid, tc) == {[self |-> self, pid |-> pid, pgid |-> g] : g \in tc}

(***************************************************************************)
(* launch_job, lines 158-175: run the stage, as a builtin or by fork.      *)
(***************************************************************************)
NextPid(ch) == FirstPid + Cardinality({q \in Pids : ch[q].st # "none"})

\* what the stage's three descriptors refer to at the moment it is launched
FdObjects(tab, fds) == [s \in StdFds |-> ObjOf(tab, fds[s])]

\* lines 161-162: p->exit_code = b->cmd(p); p->completed = 1
builtin_returns(v) ==
    /\ procs' = [procs EXCEPT ![p_p].exit_code = v, ![p_p].completed = TRUE]
    /\ pc' = "cleanup"

\* b->cmd(p) for cd, with the stage's argv[1]
run_m_cd ==
    /\ \E a \in CdArgs :
         /\ cd' = cd_after(a, cd)
         /\ builtin_returns(m_cd(a, cd).ret)
    /\ UNCHANGED wrote

\* b->cmd(p) for help: writes the banner to p->fds[1], returns 0
m_help ==
    /\ wrote' = [wrote EXCEPT ![p_p] = ObjOf(fdtab, procs[p_p].fds[1])]
    /\ builtin_returns(0)
    /\ UNCHANGED cd

\* b->cmd(p) for exit: exit(exit_code) ends the shell, nothing returns
m_exit ==
    /\ pc' = "exited"
    /\ UNCHANGED <<procs, cd, wrote>>

LaunchBuiltin ==
    /\ pc = "launch"
    /\ IsBuiltin(procs[p_p].argv0)
    /\ installed' = [installed EXCEPT ![p_p] = FdObjects(fdtab, procs[p_p].fds)]
    /\ LET b == find_node(procs[p_p].argv0, lookup_table) IN
         \/ /\ b.cmd = "cd"
            /\ run_m_cd
         \/ /\ b.cmd = "help"
            /\ m_help
         \/ /\ b.cmd = "exit"
            /\ m_exit
    /\ UNCHANGED <<jobVars, j_pgid, io_fd, i_io, p_p, fork_pid, ret, calls,
                   fdVars, npipes, pipe_failed, child, term_pgrp, faults,
                   sigVars, tc_calls, fc>>

\* mutant: the failure path rolls the pipeline back, killing the stages
\* forked so far, before it returns
ForkFailed_rollback ==
    /\ ret' = M_FAILED_EXEC
    /\ pc' = "returned"
    /\ child' = [q \in Pids |->
                  IF Alive(child[q]) THEN [child[q] EXCEPT !.st = "zombie"]
                  ELSE child[q]]
    /\ UNCHANGED <<fork_pid, installed, calls>>

\* Stopif(pid < 0, return M_FAILED_EXEC, ...)
ForkFailed ==
    /\ ret' = M_FAILED_EXEC
    /\ pc' = "returned"
    /\ UNCHANGED <<fork_pid, child, installed, calls>>

Fork ==
    /\ pc = "launch"
    /\ ~IsBuiltin(procs[p_p].argv0)
    /\ \/ /\ LET pid == NextPid(child) IN
               /\ fork_pid' = pid
               /\ child' = [child EXCEPT ![pid] =
                              [st |-> "forked", pgrp |-> ShellPgid,
                               j_pgid |-> j_pgid, stops |-> 0, wstop |-> FALSE]]
          /\ installed' = [installed EXCEPT
                             ![p_p] = FdObjects(fdtab, procs[p_p].fds)]
          /\ pc' = "parent"
          /\ UNCHANGED <<ret, faults, calls>>
       \/ /\ faults > 0
          /\ faults' = faults - 1
          /\ ForkFailed
    /\ UNCHANGED <<jobVars, j_pgid, procs, io_fd, i_io, p_p, fdVars, npipes,
                   pipe_failed, term_pgrp, sigVars, builtinVars, tc_calls, fc>>

\* mutant: the parent does not record the pid (line 173 left out)
ParentSetProcGroup_nopid ==
    /\ pc = "parent"
    /\ LET r == Set_proc_group(child, term_pgrp, 0, fork_pid, j_pgid) IN
         /\ j_pgid' = r.pgid
         /\ child' = r.child
         /\ term_pgrp' = r.term
         /\ tc_calls' = tc_calls \cup tc_log(0, fork_pid, r.tc)
    /\ pc' = "cleanup"
    /\ UNCHANGED <<jobVars, procs, io_fd, i_io, p_p, fork_pid, ret, calls,
                   fdVars, npipes, pipe_failed, installed, faults, sigVars,
                   builtinVars, fc>>

\* the parent's branch, lines 171-174
ParentSetProcGroup ==
    /\ pc = "parent"
    /\ LET r == Set_proc_group(child, term_pgrp, 0, fork_pid, j_pgid) IN
         /\ j_pgid' = r.pgid
         /\ child' = r.child
         /\ term_pgrp' = r.term
         /\ tc_calls' = tc_calls \cup tc_log(0, fork_pid, r.tc)
    /\ procs' = [procs EXCEPT ![p_p].pid = fork_pid]
    /\ pc' = "cleanup"
    /\ UNCHANGED <<jobVars, io_fd, i_io, p_p, fork_pid, ret, calls, fdVars,
                   npipes, pipe_failed, installed, faults, sigVars,
                   builtinVars, fc>>

\* line 177, and the loop's step
StageCleanup ==
    /\ pc = "cleanup"
    /\ SetKernel(fd_cleanup(Kernel, procs[p_p].fds, 3))
    /\ p_p' = p_p + 1
    /\ pc' = IF p_p + 1 = proc_end THEN "dispose" ELSE BodyPc(p_p + 1)
    /\ UNCHANGED <<jobVars, j_pgid, procs, io_fd, i_io, fork_pid, ret, calls,
                   npipes, pipe_failed, installed, child, term_pgrp, faults,
                   sigVars, builtinVars, tc_calls, fc>>

(***************************************************************************)
(* launch_job, lines 180-189: hand the job to the job registry.            *)
(***************************************************************************)
\* mutant: the test of j->bkg is inverted
disposition_inverted(inter, bkg) ==
    IF ~inter THEN <<"wait_for_job">>
    ELSE IF ~bkg THEN <<"send_to_background", "format_job_info">>
    ELSE <<"send_to_foreground">>

disposition(inter, bkg) ==
    IF ~inter THEN <<"wait_for_job">>
    ELSE IF bkg THEN <<"send_to_background", "format_job_info">>
    ELSE <<"send_to_foreground">>

\* send_to_background returns at once; wait_for_job and send_to_foreground
\* block until the job has completed or stopped
BlockingCall(cs) == cs # <<>> /\ cs[1] \in {"wait_for_job", "send_to_foreground"}

JobPids == {procs[k].pid : k \in DOMAIN procs} \ {0}

\* the job registry tracks one child of the job it waits for as the active
\* child (children.h: get_active_child, reset_active_child)
track_active_child ==
    \E a \in (IF JobPids = {} THEN {0} ELSE JobPids) : active_child' = a

Dispose ==
    /\ pc = "dispose"
    /\ calls' = calls \o disposition(interactive, j_bkg)
    /\ IF BlockingCall(calls')
       THEN /\ pc' = "job_wait"
            /\ track_active_child
            /\ UNCHANGED ret
       ELSE /\ pc' = "returned"
            /\ ret' = 0
            /\ UNCHANGED active_child
    /\ UNCHANGED <<jobVars, j_pgid, procs, io_fd, i_io, p_p, fork_pid, fdVars,
                   npipes, pipe_failed, installed, child, term_pgrp, faults,
                   hpc, h_p, first_iter, sigchld_pending, reported, exit_code,
                   builtinVars, tc_calls, fc>>

\* wait_for_job / send_to_foreground return once no child of the job runs;
\* an interactive shell takes the terminal back; then line 189, return 0
JobWaitReturn ==
    /\ pc = "job_wait"
    /\ \A q \in Pids : child[q].st \notin {"forked", "running"}
    /\ term_pgrp' = IF interactive THEN ShellPgid ELSE term_pgrp
    /\ ret' = 0
    /\ pc' = "returned"
    /\ UNCHANGED <<jobVars, j_pgid, procs, io_fd, i_io, p_p, fork_pid, calls,
                   fdVars, npipes, pipe_failed, installed, child, faults,
                   sigVars, builtinVars, tc_calls, fc>>

LaunchNext ==
    \/ OpenIO
    \/ BindIO
    \/ MakePipe
    \/ LaunchBuiltin
    \/ Fork
    \/ ParentSetProcGroup
    \/ StageCleanup
    \/ Dispose
    \/ JobWaitReturn

(***************************************************************************)
(* The children: each forked child runs the child branch of launch_job     *)
(* (lines 167-170) and then the program, which may stop, continue, exit.   *)
(***************************************************************************)
launchVarsCore == <<jobVars, j_pgid, procs, pc, io_fd, i_io, p_p, fork_pid,
                    ret, calls, fdVars, npipes, pipe_failed, installed, faults>>
launchVars == <<launchVarsCore, builtinVars, fc>>
handlerVars == <<hpc, h_p, first_iter, reported, active_child, exit_code>>

\* Set_proc_group(j, pid, j->pgid) with pid == 0, reset_ignored_signals,
\* exec_proc: execvp, or _Exit(M_FAILED_EXEC) when it fails
ChildStart(q) ==
    /\ child[q].st = "forked"
    /\ LET r == Set_proc_group(child, term_pgrp, q, 0, child[q].j_pgid) IN
         /\ term_pgrp' = r.term
         /\ tc_calls' = tc_calls \cup tc_log(q, q, r.tc)
         /\ \/ /\ child' = [r.child EXCEPT ![q].st = "running"]
               /\ UNCHANGED sigchld_pending
            \/ /\ child' = [r.child EXCEPT ![q].st = "zombie", ![q].stops = 0]
               /\ sigchld_pending' = TRUE
    /\ UNCHANGED <<launchVars, handlerVars>>

\* SIGSTOP, SIGTSTP, SIGTTIN, SIGTTOU stop the child: a status change
ChildStop(q) ==
    /\ child[q].st = "running"
    /\ child[q].stops < MaxStops
    /\ child' = [child EXCEPT ![q].st = "stopped", ![q].wstop = TRUE,
                              ![q].stops = @ + 1]
    /\ sigchld_pending' = TRUE
    /\ UNCHANGED <<launchVars, handlerVars, term_pgrp, tc_calls>>

\* SIGCONT: the stop is no longer waitable
ChildCont(q) ==
    /\ child[q].st = "stopped"
    /\ child' = [child EXCEPT ![q].st = "running", ![q].wstop = FALSE]
    /\ sigchld_pending' = TRUE
    /\ UNCHANGED <<launchVars, handlerVars, term_pgrp, tc_calls>>

\* the child exits or is killed
ChildExit(q) ==
    /\ child[q].st \in {"running", "stopped"}
    /\ child' = [child EXCEPT ![q].st = "zombie", ![q].wstop = FALSE,
                              ![q].stops = 0]
    /\ sigchld_pending' = TRUE
    /\ UNCHANGED <<launchVars, handlerVars, term_pgrp, tc_calls>>

(***************************************************************************)
(* handle_signals, signals.c lines 17-63.  setup_signals installs it with  *)
(* an empty sa_mask and no flags: while it runs for SIGCHLD, SIGCHLD is    *)
(* blocked and SIGINT and SIGQUIT are not.                                 *)
(***************************************************************************)
\* children with a status waitpid(-1, WNOHANG | WUNTRACED) reports
Waitable(ch) ==
    {q \in Pids : ch[q].st = "zombie" \/ (ch[q].st = "stopped" /\ ch[q].wstop)}

HasChildren(ch) == \E q \in Pids : Alive(ch[q])

\* the kernel's side of waitpid returning q: a zombie is reaped, a stop is
\* reported once
waitpid_collect(ch, q) ==
    IF ch[q].st = "zombie" THEN [ch EXCEPT ![q].st = "reaped"]
    ELSE [ch EXCEPT ![q].wstop = FALSE]

get_active_child == active_child

ShellRuns == pc # "exited"

\* delivery of SIGCHLD: the locals of lines 19-21
SigchldEnter ==
    /\ ShellRuns
    /\ sigchld_pending
    /\ hpc = "idle"
    /\ sigchld_pending' = FALSE
    /\ hpc' = "poll"
    /\ h_p' = 0
    /\ first_iter' = TRUE
    /\ UNCHANGED <<launchVars, child, term_pgrp, reported, active_child,
                   exit_code, tc_calls>>

\* mutant: reset_active_child() also when waitpid returns 0
SigchldPoll_reset_on_zero ==
    /\ ShellRuns
    /\ hpc = "poll"
    /\ \/ /\ Waitable(child) = {}
          /\ HasChildren(child)
          /\ hpc' = "idle"
          /\ h_p' = 0
          /\ first_iter' = TRUE
          /\ active_child' = 0
          /\ UNCHANGED child
       \/ /\ ~HasChildren(child)
          /\ active_child' = IF first_iter THEN 0 ELSE active_child
          /\ hpc' = "idle"
          /\ h_p' = 0
          /\ first_iter' = TRUE
          /\ UNCHANGED child
       \/ \E q \in Waitable(child) :
            /\ child' = waitpid_collect(child, q)
            /\ IF q = get_active_child
               THEN /\ active_child' = 0
                    /\ first_iter' = FALSE
                    /\ h_p' = 0
                    /\ hpc' = "poll"
               ELSE /\ h_p' = q
                    /\ hpc' = "report"
                    /\ UNCHANGED <<active_child, first_iter>>
    /\ UNCHANGED <<launchVars, term_pgrp, sigchld_pending, reported,
                   exit_code, tc_calls>>

\* lines 37-54: one waitpid and the branch on its result
SigchldPoll ==
    /\ ShellRuns
    /\ hpc = "poll"
    /\ \/ /\ Waitable(child) = {}
          /\ HasChildren(child)
          /\ hpc' = "idle"
          /\ h_p' = 0
          /\ first_iter' = TRUE
          /\ UNCHANGED <<child, active_child>>
       \/ /\ ~HasChildren(child)
          /\ active_child' = IF first_iter THEN 0 ELSE active_child
          /\ hpc' = "idle"
          /\ h_p' = 0
          /\ first_iter' = TRUE
          /\ UNCHANGED child
       \/ \E q \in Waitable(child) :
            /\ child' = waitpid_collect(child, q)
            /\ IF q = get_active_child
               THEN /\ active_child' = 0
                    /\ first_iter' = FALSE
                    /\ h_p' = 0
                    /\ hpc' = "poll"
               ELSE /\ h_p' = q
                    /\ hpc' = "report"
                    /\ UNCHANGED <<active_child, first_iter>>
    /\ UNCHANGED <<launchVars, term_pgrp, sigchld_pending, reported,
                   exit_code, tc_calls>>

\* lines 56-58: del_bkg_proc(p) and the "completed" line
SigchldReport ==
    /\ ShellRuns
    /\ hpc = "report"
    /\ reported' = [reported EXCEPT ![h_p] = @ + 1]
    /\ first_iter' = FALSE
    /\ h_p' = 0
    /\ hpc' = "poll"
    /\ UNCHANGED <<launchVars, child, term_pgrp, sigchld_pending,
                   active_child, exit_code, tc_calls>>

\* mutant: the handler returns (no siglongjmp): the interrupted code goes on
Sigint_returns ==
    /\ ShellRuns
    /\ pc # "recovery" \/ hpc # "idle"
    /\ exit_code' = SIGINT_EXIT_CODE
    /\ UNCHANGED <<jobVars, j_pgid, procs, io_fd, i_io, p_p, fork_pid, ret,
                   calls, fdVars, npipes, pipe_failed, installed, faults,
                   child, term_pgrp, sigchld_pending, reported, active_child,
                   builtinVars, tc_calls, fc, pc, hpc, h_p, first_iter>>

\* lines 24-28: SIGINT, in the main flow or on top of the SIGCHLD handler;
\* siglongjmp drops both and continues at the recovery point
Sigint ==
    /\ ShellRuns
    /\ pc # "recovery" \/ hpc # "idle"
    /\ exit_code' = SIGINT_EXIT_CODE
    /\ pc' = "recovery"
    /\ hpc' = "idle"
    /\ h_p' = 0
    /\ first_iter' = TRUE
    /\ UNCHANGED <<jobVars, j_pgid, procs, io_fd, i_io, p_p, fork_pid, ret,
                   calls, fdVars, npipes, pipe_failed, installed, faults,
                   child, term_pgrp, sigchld_pending, reported, active_child,
                   builtinVars, tc_calls, fc>>

\* lines 29-34: SIGQUIT prints a line and returns; the statement SIG_IGN
\* has no effect, and nothing the shell keeps changes
Sigquit ==
    /\ ShellRuns
    /\ UNCHANGED vars

\* everything but the state of cd and of free_cmd
runVars == <<launchVarsCore, child, term_pgrp, sigVars, wrote, tc_calls>>

(***************************************************************************)
(* The cd builtin run over and over: each job of the shell is one `cd`     *)
(* with some argument, launched while nothing else goes on.                *)
(***************************************************************************)
\* a shell in which no launch is under way
Idle ==
    /\ InitState
    /\ faults = 0
    /\ interactive
    /\ ~j_bkg
    /\ j_io = [k \in StdFds |-> FALSE]
    /\ procs = [k \in {0} |-> new_proc("cd")]

InitCdRuns == Idle /\ fc = NoFree

\* b->cmd(p) for one more `cd` job
CdCall ==
    /\ Len(cd.log) < MaxCd
    /\ \E a \in CdArgs : cd' = cd_after(a, cd)
    /\ UNCHANGED <<runVars, fc>>

(***************************************************************************)
(* One call of free_cmd(c) or free_cmd_wrapper(w), step by step.           *)
(***************************************************************************)
InitFree == Idle /\ fc \in FreeInputs

\* the number of strings of array a (0: argv, 1: env) of the k-th cmd
NumStrs(k, a) == IF a = 0 THEN fc.chain[k].argv ELSE fc.chain[k].env

Freed(b) == \E n \in DOMAIN fc.frees : fc.frees[n] = b

\* the paths of w->io that are not NULL, in the order of the loop
io_paths == IF fc.io THEN [k \in 1 .. 3 |-> Block("path", 0, k - 1, 0)] ELSE <<>>

\* free_cmd_wrapper, lines 50-54: return on NULL, else Free the three
\* paths and call free_cmd(w->root)
FreeWrapperEnter ==
    /\ fc.pc = "start"
    /\ fc.entry = "free_cmd_wrapper"
    /\ fc' = IF ~fc.w THEN [fc EXCEPT !.pc = "done"]
             ELSE [fc EXCEPT !.pc = "while", !.frees = @ \o io_paths]
    /\ UNCHANGED <<runVars, cd>>

\* free_cmd called directly
FreeCmdEnter ==
    /\ fc.pc = "start"
    /\ fc.entry = "free_cmd"
    /\ fc' = [fc EXCEPT !.pc = "while"]
    /\ UNCHANGED <<runVars, cd>>

\* line 25, while (c), and lines 26-28 up to the inner loop
FreeCmdWhile ==
    /\ fc.pc = "while"
    /\ fc' = IF fc.c > Len(fc.chain) THEN [fc EXCEPT !.pc = "return"]
             ELSE [fc EXCEPT !.pc = "test", !.i = 0, !.j = 0]
    /\ UNCHANGED <<runVars, cd>>

\* line 29: the test (*strs)[j] && i < (*a[j])->cap, and line 30.  a has
\* the two elements a[0] = &c->argv, a[1] = &c->env.  Reading a[j] for
\* j >= 2, and reading the cap of an array free_dyn_array has released,
\* is undefined: the test comes out either way, or the shell crashes.
FreeCmdTest ==
    /\ fc.pc = "test"
    /\ LET c == fc.c
           i == fc.i
           j == fc.j
           body == [fc EXCEPT !.frees = Append(@, Block("str", c, i, j)),
                              !.j = j + 1]
           leave == [fc EXCEPT !.pc = "free_array"]
       IN IF j >= NumStrs(c, i) THEN fc' = leave
          ELSE IF j < 2 /\ ~Freed(Block("arr", c, j, 0))
               THEN fc' = IF i < Cap THEN body ELSE leave
          ELSE \E out \in {"true", "false", "crash"} :
                 fc' = [(CASE out = "true" -> body
                           [] out = "false" -> leave
                           [] out = "crash" -> [fc EXCEPT !.pc = "crashed"])
                        EXCEPT !.bad_read = @ \cup
                           {IF j < 2 THEN "cap of a freed array"
                            ELSE "a[j] beyond a"}]
    /\ UNCHANGED <<runVars, cd>>

\* line 32, free_dyn_array(*a[i]), and the step of the outer loop
FreeCmdArray ==
    /\ fc.pc = "free_array"
    /\ fc' = [fc EXCEPT !.frees = Append(@, Block("arr", fc.c, fc.i, 0)),
                        !.i = fc.i + 1,
                        !.j = 0,
                        !.pc = IF fc.i + 1 < 2 THEN "test" ELSE "free_c"]
    /\ UNCHANGED <<runVars, cd>>

\* lines 35-37: next = c->next; Free(c); c = next
FreeCmdNext ==
    /\ fc.pc = "free_c"
    /\ fc' = [fc EXCEPT !.frees = Append(@, Block("cmd", fc.c, 0, 0)),
                        !.c = fc.c + 1,
                        !.pc = "while"]
    /\ UNCHANGED <<runVars, cd>>

\* free_cmd returns; line 55, Free(w), when the wrapper called it
FreeCmdReturn ==
    /\ fc.pc = "return"
    /\ fc' = IF fc.entry = "free_cmd_wrapper"
             THEN [fc EXCEPT !.frees = Append(@, Block("w", 0, 0, 0)),
                             !.pc = "done"]
             ELSE [fc EXCEPT !.pc = "done"]
    /\ UNCHANGED <<runVars, cd>>

FreeNext ==
    \/ FreeWrapperEnter
    \/ FreeCmdEnter
    \/ FreeCmdWhile
    \/ FreeCmdTest
    \/ FreeCmdArray
    \/ FreeCmdNext
    \/ FreeCmdReturn

ChildNext == \E q \in Pids : ChildStart(q) \/ ChildStop(q) \/ ChildCont(q) \/ ChildExit(q)

SignalNext == SigchldEnter \/ SigchldPoll \/ SigchldReport \/ Sigint \/ Sigquit

Next == LaunchNext \/ ChildNext \/ SignalNext

\* the main flow of launch_job, with failing system calls
Spec == Init /\ [][LaunchNext]_vars

\* launch_job interleaved with its children and with signal deliveries
SpecSig == InitSig /\ [][Next]_vars

\* a run of cd invocations
SpecCd == InitCdRuns /\ [][CdCall]_vars

\* one call of free_cmd or free_cmd_wrapper
SpecFree == InitFree /\ [][FreeNext]_vars

(***************************************************************************)
(* Properties.                                                             *)
(***************************************************************************)
InitFdtab == [f \in Fds |-> IF f \in StdFds THEN Tty ELSE Closed]
Launched(k) == procs[k].completed \/ procs[k].pid # 0 \/ installed[k][0] # NoObj
Returned(v) == pc = "returned" /\ ret = v
CallSet == {calls[n] : n \in DOMAIN calls}

\* C1: when the open of a redirection fails, launch_job has returned
\* M_FAILED_IO, every descriptor it opened before is closed again (the
\* descriptor table is the one it started with), and no pipe was created,
\* no process forked, no builtin invoked, no registry call made.
C1_OpenFailureUndoesOpens ==
    (\E k \in StdFds : io_fd[k] = -1) =>
        /\ Returned(M_FAILED_IO)
        /\ fdtab = InitFdtab
        /\ npipes = 0
        /\ \A q \in Pids : child[q].st = "none"
        /\ \A k \in DOMAIN procs : ~Launched(k)
        /\ calls = <<>>

\* two redirections were opened and the third open failed
C1_Witness ==
    /\ Returned(M_FAILED_IO)
    /\ io_fd[2] = -1
    /\ io_fd[0] = 3
    /\ io_fd[1] = 4

\* C2: at every return of launch_job the shell holds no descriptor the call
\* created: only the terminal descriptors it started with are open.
C2_NoDescriptorLeftOpen ==
    pc = "returned" => \A f \in Fds : fdtab[f].kind \in {"closed", "tty"}

\* C3: a launch that ran through all stages created exactly N-1 pipes;
\* stage i wrote to the pipe stage i+1 read from; the first stage read the
\* resolved input and the last stage wrote the resolved output and error.
C3_PipesChainStages ==
    LET Redir(s) == IF j_io[s] THEN File(s) ELSE Tty IN
    (p_p = proc_end /\ pc \in {"dispose", "job_wait", "returned"}) =>
        /\ npipes = nprocs - 1
        /\ \A k \in 0 .. nprocs - 2 :
             \E n \in 1 .. npipes :
                /\ installed[k][1] = PipeW(n)
                /\ installed[k + 1][0] = PipeR(n)
        /\ installed[0][0] = Redir(0)
        /\ installed[nprocs - 1][1] = Redir(1)
        /\ installed[nprocs - 1][2] = Redir(2)

\* C5: after fork failed for stage p_p, launch_job has returned the error,
\* the stages forked before are alive and were left alone, stage p_p and
\* the stages after it were never launched, and the registry was not called.
C5_ForkFailureLeavesSiblings ==
    Returned(M_FAILED_EXEC) =>
        /\ calls = <<>>
        /\ \A k \in DOMAIN procs :
             /\ k >= p_p => ~Launched(k)
             /\ k < p_p => Launched(k)
             /\ (k < p_p /\ procs[k].pid # 0) =>
                    child[procs[k].pid].st \in {"forked", "running", "stopped"}
        /\ Cardinality({q \in Pids : child[q].st # "none"}) =
             Cardinality({k \in DOMAIN procs : k < p_p /\ ~IsBuiltin(procs[k].argv0)})

\* fork failed for the second stage after the first stage was forked
C5_Witness ==
    /\ Returned(M_FAILED_EXEC)
    /\ p_p = 1
    /\ procs[0].pid = FirstPid
    /\ child[FirstPid].st = "forked"

\* C6: a failed pipe() aborts the launch at once: launch_job has returned an
\* error status (and so forks nothing and runs no builtin afterwards).
C6_PipeFailureAborts ==
    pipe_failed => (pc = "returned" /\ ret # 0)

\* C9: the registry is called only once every stage is launched, and then
\* exactly as the mode says: wait_for_job when not interactive,
\* send_to_background then format_job_info (and no blocking) when
\* interactive and backgrounded, send_to_foreground otherwise.
C9_OneDispositionAfterLastStage ==
    /\ calls # <<>> => (p_p = proc_end /\ \A k \in DOMAIN procs : Launched(k))
    /\ pc \in {"open_io", "bind", "pipe", "launch", "parent", "cleanup",
               "dispose"} => calls = <<>>
    /\ (pc = "job_wait" \/ Returned(0)) =>
          calls = (IF ~interactive THEN <<"wait_for_job">>
                   ELSE IF j_bkg THEN <<"send_to_background", "format_job_info">>
                   ELSE <<"send_to_foreground">>)
    /\ pc = "job_wait" => ~(interactive /\ j_bkg)

\* a two-stage background job was registered and launch_job returned
C9_Witness ==
    /\ Returned(0)
    /\ nprocs = 2
    /\ calls = <<"send_to_background", "format_job_info">>

\* C10: the value launch_job returns for a launched job is the exit code
\* recorded for the last stage.
C10_ReturnsLastExitStatus ==
    (pc = "returned" /\ ret \notin {M_FAILED_IO, M_FAILED_EXEC}
        /\ procs[proc_end - 1].completed)
    => ret = procs[proc_end - 1].exit_code

\* the first process forked for the job
FirstForked == CHOOSE q \in Pids : child[q].st # "none" /\
                    \A r \in Pids : child[r].st # "none" => q <= r

\* C4: in interactive mode every forked process of the job that the shell
\* has recorded (the parent is past its Set_proc_group) and that still
\* exists is in the process group named by the first forked pid.
C4_OneProcessGroup ==
    interactive =>
        \A k \in DOMAIN procs :
            (procs[k].pid # 0 /\ Alive(child[procs[k].pid])) =>
                child[procs[k].pid].pgrp = FirstForked

\* C7: every child pid of a job launched in the background is reported by
\* the SIGCHLD handler exactly once: never twice, and once the child is
\* collected and the handler is done with it, not zero times.
C7_ReportedExactlyOnce ==
    "send_to_background" \in CallSet =>
        \A q \in JobPids :
            /\ reported[q] <= 1
            /\ (child[q].st = "reaped" /\ hpc = "idle") => reported[q] = 1

\* C8: whenever the handler is about to call del_bkg_proc on a pid that is
\* not the active child, the job of that pid has been registered as a
\* background job.
C8_ReportedPidIsBackground ==
    hpc = "report" => "send_to_background" \in CallSet

\* the entry of the cd log that belongs to stage k, a cd stage
CdIndex(k) == Cardinality({i \in 0 .. k : procs[i].argv0 = "cd"})

\* the value the builtin of the completed stage k returned
BuiltinReturn(k) ==
    IF procs[k].argv0 = "cd" THEN cd.log[CdIndex(k)].ret ELSE 0

AllBuiltins == \A k \in DOMAIN procs : IsBuiltin(procs[k].argv0)

\* C11: a stage whose argv[0] names a builtin is run in the shell without
\* fork (no pid, and unless the shell has exited it is completed with the
\* exit code the builtin returned), and what it writes goes to its own
\* fds[1]; a job of builtins only forks no process, and what the first of
\* two builtins writes goes into the pipe the second one's fds[0] reads.
C11_BuiltinsRunInProcess ==
    /\ \A k \in DOMAIN procs :
         (IsBuiltin(procs[k].argv0) /\ Launched(k)) =>
            /\ procs[k].pid = 0
            /\ pc # "exited" => procs[k].completed
            /\ procs[k].completed => procs[k].exit_code = BuiltinReturn(k)
            /\ wrote[k] \in {NoObj, installed[k][1]}
            /\ procs[k].argv0 = "help" /\ procs[k].completed =>
                  wrote[k] = installed[k][1]
    /\ AllBuiltins => \A q \in Pids : child[q].st = "none"
    /\ (AllBuiltins /\ nprocs >= 2 /\ Launched(1) /\ wrote[0] # NoObj) =>
          \E n \in 1 .. npipes :
             /\ wrote[0] = PipeW(n)
             /\ installed[1][0] = PipeR(n)

\* stage k has a forked child recorded
HasPid(k) == procs[k].pid # 0
\* stage k was executed in the shell as a builtin
RanInProcess(k) == procs[k].completed /\ procs[k].pid = 0

\* C12, as stated: once launch_job has returned, with whatever status,
\* every process of the job has either a forked pid recorded or was run
\* in-process as a builtin, never both and never neither.
C12_ForkedXorBuiltin ==
    pc = "returned" => \A k \in DOMAIN procs : HasPid(k) # RanInProcess(k)

\* C12, amended: once launch_job has returned 0, every process of the job
\* has either a forked pid recorded or was run in-process as a builtin,
\* never both and never neither; this also holds for the stages before the
\* failing one when launch_job returns M_FAILED_EXEC.
C12_ForkedXorBuiltinOnSuccess ==
    /\ Returned(0) => \A k \in DOMAIN procs : HasPid(k) # RanInProcess(k)
    /\ Returned(M_FAILED_EXEC) =>
          \A k \in DOMAIN procs : k < p_p => HasPid(k) # RanInProcess(k)

\* a builtin followed by a forked stage, launched in the background
C12_Witness ==
    /\ Returned(0)
    /\ nprocs = 2
    /\ RanInProcess(0)
    /\ HasPid(1)

\* cwd and oldpwd after the first n cd calls of the log
CdState(n) ==
    IF n = 0 THEN [cwd |-> InitCd.cwd, oldpwd |-> InitCd.oldpwd]
    ELSE [cwd |-> cd.log[n].cwd, oldpwd |-> cd.log[n].oldpwd]

\* the calls before the n-th that tried to change the directory (all but a
\* `cd -` refused for want of a saved directory)
Attempts(n) ==
    {k \in 1 .. n - 1 : ~(cd.log[k].arg = "-" /\ CdState(k - 1).oldpwd = "")}

\* the calls before the n-th that changed the directory: chdir succeeded
Changes(n) == {k \in 1 .. n - 1 : cd.log[k].ret = 0}

LastChange(n) == CHOOSE k \in Changes(n) : \A m \in Changes(n) : m <= k

\* C13: a `cd -` that follows at least one directory change puts the shell
\* in the directory it was in before the most recent directory change; a
\* `cd -` before any directory change attempt returns 1 and leaves the
\* working directory and the saved previous directory as they were.
C13_CdDashReturnsToPrevious ==
    \A n \in DOMAIN cd.log :
        cd.log[n].arg = "-" =>
            /\ Changes(n) # {} =>
                  cd.log[n].cwd = CdState(LastChange(n) - 1).cwd
            /\ Attempts(n) = {} =>
                  /\ cd.log[n].ret = 1
                  /\ CdState(n) = CdState(n - 1)

\* the blocks the argument of the call owns
OwnedBlocks ==
    UNION {{Block("cmd", c, 0, 0), Block("arr", c, 0, 0), Block("arr", c, 1, 0)}
           \cup {Block("str", c, a, j) : a \in {0}, j \in 0 .. fc.chain[c].argv - 1}
           \cup {Block("str", c, a, j) : a \in {1}, j \in 0 .. fc.chain[c].env - 1}
           : c \in DOMAIN fc.chain}
    \cup (IF fc.entry = "free_cmd_wrapper" /\ fc.w
          THEN {Block("w", 0, 0, 0)} \cup {io_paths[k] : k \in DOMAIN io_paths}
          ELSE {})

TimesFreed(b) == Cardinality({n \in DOMAIN fc.frees : fc.frees[n] = b})

\* C14: the call never crashes and reads only inside the arrays it
\* iterates, never the cap of a released array; once it is done, every block
\* the argument owns (strings of argv and env, the two arrays, the cmd, for
\* every cmd of the chain) has been released exactly once and nothing else;
\* on NULL nothing is released; the wrapper releases the paths first.
C14_FreeCmdReleasesAllOnce ==
    /\ fc.pc # "crashed"
    /\ fc.bad_read = {}
    /\ \A b \in OwnedBlocks : TimesFreed(b) <= 1
    /\ fc.pc = "done" =>
          /\ \A b \in OwnedBlocks : TimesFreed(b) = 1
          /\ \A n \in DOMAIN fc.frees : fc.frees[n] \in OwnedBlocks
    /\ \A n \in DOMAIN fc.frees :
          fc.frees[n].kind = "path" =>
             \A m \in 1 .. n - 1 : fc.frees[m].kind = "path"

\* C15: a delivery of SIGINT, in the main flow or on top of the SIGCHLD
\* handler, sets exit_code to SIGINT_EXIT_CODE and puts the main flow at the
\* recovery point with no handler frame left; from the recovery point on
\* exit_code keeps that value, no step of launch_job is taken any more, and
\* a handler runs only as a new invocation for a pending SIGCHLD.
C15_SigintJumpsToRecovery ==
    [][/\ Sigint =>
            /\ exit_code' = SIGINT_EXIT_CODE
            /\ pc' = "recovery"
            /\ hpc' = "idle"
       /\ pc = "recovery" =>
            /\ exit_code' = SIGINT_EXIT_CODE
            /\ pc' = "recovery"
            /\ UNCHANGED <<jobVars, j_pgid, procs, io_fd, i_io, p_p, fork_pid,
                           ret, calls, fdVars, npipes, pipe_failed, installed,
                           builtinVars>>
            /\ (hpc = "idle" /\ hpc' # "idle") => sigchld_pending
      ]_vars

\* SIGINT arrived in the middle of the launch loop, on top of a SIGCHLD
\* handler that had collected a child and not yet reported it
C15_Witness ==
    /\ pc = "recovery"
    /\ exit_code = SIGINT_EXIT_CODE
    /\ hpc = "idle"
    /\ p_p < proc_end
    /\ \E q \in Pids : child[q].st = "reaped" /\ reported[q] = 0

\* C16: in interactive mode the child has run its Set_proc_group before it
\* executes the program and the parent has run its own before it records
\* the pid; and every tcsetpgrp call made through Set_proc_group, by the
\* parent or by a child, was handed a process-group id that is not 0 and is
\* the group of the job (the pid of its first forked process).
C16_TerminalGetsJobGroup ==
    /\ (interactive /\ ~j_bkg) =>
          /\ \A q \in Pids :
                child[q].st \in {"running", "stopped"} =>
                    \E c \in tc_calls : c.self = q
          /\ \A k \in DOMAIN procs :
                procs[k].pid # 0 =>
                    \E c \in tc_calls : c.self = 0 /\ c.pid = procs[k].pid
    /\ \A c \in tc_calls : c.pgid # 0 /\ c.pgid = FirstForked

\* stage k has been forked, or its builtin has been invoked
Started(k) == installed[k][0] # NoObj

\* C17: from the binding of the redirections on, every close() of the shell
\* closes an open descriptor (none is closed a second time), never one of
\* its own descriptors 0, 1, 2, and only a descriptor that a stage already
\* forked or run as a builtin was launched with; and when launch_job has
\* returned, every file and pipe end it put in a stage's fd table has been
\* closed.
C17_ClosedExactlyOnce ==
    ret # M_FAILED_IO =>
        /\ ~bad_close
        /\ \A e \in closed :
              /\ e.fd \notin StdFds
              /\ \E k \in DOMAIN procs, t \in StdFds :
                    Started(k) /\ installed[k][t] = e.obj
        /\ pc = "returned" =>
              \A f \in Fds : fdtab[f].kind \in {"closed", "tty"}

\* C18: whenever the SIGCHLD handler's polling loop is left, the poll has
\* just reported that no status change is pending or that there are no
\* children: no child is left whose termination or stop is still to be
\* collected.
C18_LoopExitsWhenNothingPending ==
    [][(hpc # "idle" /\ hpc' = "idle") => Waitable(child') = {}]_vars

\* C19: the active-child slot is cleared only by a poll of the SIGCHLD
\* handler, and only when the tracked child is not running any more: the
\* poll has just collected exactly that pid (it terminated or stopped), or
\* it found no children at all on the first iteration; and a poll that
\* finds no children on a later iteration leaves the slot alone.
C19_ActiveChildClearedWhenNotRunning ==
    [][/\ (active_child # 0 /\ active_child' = 0) =>
            /\ hpc = "poll"
            /\ child'[active_child].st \notin {"forked", "running"}
            /\ \/ /\ active_child \in Waitable(child)
                  /\ child' = waitpid_collect(child, active_child)
               \/ /\ first_iter
                  /\ ~HasChildren(child)
       /\ (hpc = "poll" /\ hpc' = "idle" /\ ~first_iter /\ ~HasChildren(child)) =>
            active_child' = active_child
      ]_vars

\* the tracked foreground child stopped, and the handler's poll, which was
\* handed its pid, cleared the slot without reporting it
C19_Witness ==
    /\ pc = "job_wait"
    /\ active_child = 0
    /\ hpc = "idle"
    /\ \E q \in JobPids : child[q].st = "stopped" /\ reported[q] = 0

\* C20: in interactive mode, whenever launch_job has returned, the
\* foreground process group of the terminal is the shell's own group, or
\* the group of the job and the job was handed to send_to_foreground.
C20_TerminalNotLeftWithJob ==
    (interactive /\ pc = "returned") =>
        \/ term_pgrp = ShellPgid
        \/ /\ "send_to_foreground" \in CallSet
           /\ term_pgrp = j_pgid

====
